---- MODULE Spec2Model ----
(***************************************************************************)
(* Model of src/retirement_app.py: the accumulation / decumulation engine  *)
(* calculate_retirement_plan, the tax helper calculate_ltcg_tax, and the   *)
(* script's orchestration (input validation, primary run, comparison run). *)
(*                                                                         *)
(* Numbers.  The program computes in binary floating point.  The model     *)
(* computes in fixed point: a rate or a factor x is held as the integer    *)
(* floor(x * SCALE); an amount of money is held as an integer number of    *)
(* rupees.  Every product and quotient is rounded down to that grid, the   *)
(* way the program rounds each operation to the nearest float.  The lists  *)
(* the program stores in crore (value / 1e7) and lakh (value / 1e5) are    *)
(* held in rupees: the division by a power of ten and the multiplication   *)
(* back are a change of unit, exact to the last bit of a float.            *)
(***************************************************************************)
EXTENDS Integers, Sequences, FiniteSets, TLC

\* Resolution of the fixed-point grid: 1.0 is SCALE.
SCALE == 10000

----------------------------------------------------------------------------
\* Arithmetic on the grid

Max(a, b) == IF a >= b THEN a ELSE b

\* The highest power of two that is <= b, from k upwards (b >= 1).
RECURSIVE TopBit(_, _)
TopBit(b, k) == IF 2 * k > b THEN k ELSE TopBit(b, 2 * k)

\* floor(a*b/c) for 0 <= a < c, by binary long multiplication from the bit k of
\* b downwards: q and r are the quotient and the remainder of a * (the bits of
\* b above k) by c, so that no intermediate value exceeds 3*c.  (A function, so
\* that the arguments are evaluated once, before the body.)
MulDivBits[a \in Nat, b \in Nat, c \in Nat, k \in Nat, q \in Nat, r \in Nat] ==
    IF k = 0 THEN q
    ELSE MulDivBits[a, b, c, k \div 2,
                    2 * q + ((2 * r + (IF (b \div k) % 2 = 1 THEN a ELSE 0)) \div c),
                    (2 * r + (IF (b \div k) % 2 = 1 THEN a ELSE 0)) % c]

\* The largest integer of the checker's arithmetic.
MaxInt == (2^30 - 1) + 2^30

\* floor(a*b/c) for b >= 0, c > 0 and a of either sign: the product directly
\* where it fits, by long multiplication where it does not.
MulDivFn[a \in Int, b \in Nat, c \in Nat] ==
    (a \div c) * b
    + (IF b = 0 \/ a % c = 0 THEN 0
       ELSE IF a % c <= MaxInt \div b THEN ((a % c) * b) \div c
       ELSE MulDivBits[a % c, b, c, TopBit(b, 1), 0, 0])

MulDiv(a, b, c) == MulDivFn[a, b, c]

\* x * f, f a factor on the grid.
Mul(x, f) == MulDiv(x, f, SCALE)

\* x / f, f a factor on the grid, f > 0.
Div(x, f) == MulDiv(x, SCALE, f)

\* a / b as a factor on the grid, b > 0.
Ratio(a, b) == MulDiv(a, SCALE, b)

\* h * h * f
SquareTimes[h \in Nat, f \in Nat] == Mul(Mul(h, h), f)

\* base ** n for a factor base and an integer n >= 0, by repeated squaring.
PowFn[base \in Nat, n \in Nat] ==
    IF n = 0 THEN SCALE
    ELSE SquareTimes[PowFn[base, n \div 2], IF n % 2 = 1 THEN base ELSE SCALE]

Pow(base, n) == PowFn[base, n]

\* (1 + rate) ** (1/12) - 1: the largest monthly rate g whose twelfth power
\* does not exceed 1 + rate, searched upwards from g.
RootSearch[rate \in Nat, g \in Nat] ==
    IF Pow(SCALE + g + 1, 12) > SCALE + rate THEN g ELSE RootSearch[rate, g + 1]

MonthlyEquivalent(rate) == RootSearch[rate, 0]

----------------------------------------------------------------------------
\* Program constants

\* while ... age < 100
AGE_CEILING == 100
\* for m in range(12); m = y * 12; rate / 12; ltcg_exempt_limit / 12
MONTHS == 12
\* st.sidebar.slider("Current Age", 35, 55, 41)
CURRENT_AGE_MIN == 35
CURRENT_AGE_MAX == 55
\* st.sidebar.slider("Retirement Age", 50, 70, 55) and
\* st.sidebar.slider("Alternative Retirement Age", 50, 70, 60)
RETIREMENT_AGE_MIN == 50
RETIREMENT_AGE_MAX == 70
\* ltcg_exempt_limit = 125000
LTCG_EXEMPT_LIMIT == 125000
\* equity_tax = taxable_equity_gains * 0.125
EQUITY_LTCG_RATE == (125 * SCALE) \div 1000

\* A percentage as a rate on the grid: the sliders' "/ 100".
Pct(n) == (n * SCALE) \div 100

----------------------------------------------------------------------------
\* Bounds of the model

\* The accumulation phase of a direct call lasts 1..MaxYearsToRet years.
MaxYearsToRet == 2
\* Direct calls retire LateStart..LateStart+1 years before the age ceiling,
\* so that the ceiling is reached while the corpus is positive.
LateStart == 2

----------------------------------------------------------------------------
\* State

VARIABLES
    pc,          \* position in the script / in calculate_retirement_plan
    ui,          \* the sidebar's widget values (module-level names of the script)
    caller,      \* "direct" | "primary" | "alt": who called the engine
    p,           \* the arguments of the running call
    acc,         \* accumulation loop: y, the four lists, total_invested_mf
    ret,         \* values fixed at retirement (lines 233-262)
    dep,         \* decumulation loop state (lines 253-312)
    raised,      \* "none" or the exception that ended the run
    result,      \* the primary (or direct) call's return value
    alt_result,  \* the comparison call's return value
    diff         \* the comparison's differences (lines 528-530)

vars == <<pc, ui, caller, p, acc, ret, dep, raised, result, alt_result, diff>>

NoRecord == [none |-> TRUE]

Last(s) == s[Len(s)]

----------------------------------------------------------------------------
\* calculate_ltcg_tax

\* max(0, equity_gains - ltcg_exempt_limit) with the clamp left out.
TaxableEquityGains_unclamped(equity_gains, ltcg_exempt_limit) ==
    equity_gains - ltcg_exempt_limit

TaxableEquityGains(equity_gains, ltcg_exempt_limit) ==
    Max(0, equity_gains - ltcg_exempt_limit)

calculate_ltcg_tax(withdrawal_amount, cost_basis, current_value, equity_allocation, debt_allocation, debt_tax_slab, ltcg_exempt_limit) ==
    IF current_value <= 0 THEN 0
    ELSE LET total_gains == Max(0, current_value - cost_basis)
             gains_ratio == Ratio(total_gains, current_value)
             gains_in_withdrawal == Mul(withdrawal_amount, gains_ratio)
             equity_gains == Mul(gains_in_withdrawal, equity_allocation)
             taxable_equity_gains == TaxableEquityGains(equity_gains, ltcg_exempt_limit)
             equity_tax == Mul(taxable_equity_gains, EQUITY_LTCG_RATE)
             debt_gains == Mul(gains_in_withdrawal, debt_allocation)
             debt_tax == Mul(debt_gains, debt_tax_slab)
         IN  equity_tax + debt_tax

----------------------------------------------------------------------------
\* calculate_retirement_plan: accumulation (lines 178-231)

years_to_ret == p.retirement_age - p.current_age
months_to_ret == years_to_ret * MONTHS
monthly_rate_pre == p.pre_ret_return \div MONTHS
monthly_epf_rate == p.epf_return \div MONTHS

\* np.arange(current_age, retirement_age) : the last age left out.
AccAges_short(current_age, retirement_age) ==
    [i \in 1..Max(0, retirement_age - current_age) |-> current_age + i - 1]

\* np.arange(current_age, retirement_age + 1)
AccAges(current_age, retirement_age) ==
    [i \in 1..Max(0, retirement_age + 1 - current_age) |-> current_age + i - 1]

acc_ages == AccAges(p.current_age, p.retirement_age)

\* monthly * (((1 + rate)**m - 1) / rate) * (1 + rate), for rate # 0
AnnuityDue(monthly, rate, m) ==
    Mul(Mul(monthly, Div(Pow(SCALE + rate, m) - SCALE, rate)), SCALE + rate)

\* The division by `rate` of the line above, for rate = 0.0
DividesByZero(y) ==
    /\ y * MONTHS > 0
    /\ \/ monthly_rate_pre = 0
       \/ p.monthly_epf > 0 /\ monthly_epf_rate = 0

\* value / inflation_factor, whatever show_real_terms : the flag ignored.
Deflate_always(value, y) == Div(value, Pow(SCALE + p.inflation_rate, y))

\* value / inflation_factor when show_real_terms
Deflate(value, y) ==
    IF p.show_real_terms THEN Div(value, Pow(SCALE + p.inflation_rate, y)) ELSE value

LumpVal(y) == Mul(p.current_portfolio, Pow(SCALE + p.pre_ret_return, y))

SipVal(y) ==
    IF y * MONTHS > 0 THEN AnnuityDue(p.monthly_sip, monthly_rate_pre, y * MONTHS) ELSE 0

EpfVal(y) ==
    IF p.monthly_epf > 0
    THEN LET existing_epf_growth == Mul(p.existing_epf, Pow(SCALE + p.epf_return, y))
             new_epf_contributions ==
                 IF y * MONTHS > 0
                 THEN AnnuityDue(p.monthly_epf, monthly_epf_rate, y * MONTHS)
                 ELSE 0
         IN  existing_epf_growth + new_epf_contributions
    ELSE 0

AssetVal(y) == Mul(p.other_assets, Pow(SCALE + p.asset_appreciation, y))

\* The state at entry to the function: lines 183-187.
AccStart(args) ==
    [y |-> 0, lump_vals |-> <<>>, sip_vals |-> <<>>, epf_vals |-> <<>>,
     asset_vals |-> <<>>, total_invested_mf |-> args.current_portfolio]

\* One iteration of `for y in range(len(acc_ages))`.
AccYear ==
    /\ pc = "acc"
    /\ acc.y < Len(acc_ages)
    /\ IF DividesByZero(acc.y)
       THEN /\ raised' = "ZeroDivisionError"
            /\ pc' = "raised"
            /\ UNCHANGED acc
       ELSE /\ acc' = [y |-> acc.y + 1,
                       lump_vals |-> Append(acc.lump_vals, Deflate(LumpVal(acc.y), acc.y)),
                       sip_vals |-> Append(acc.sip_vals, Deflate(SipVal(acc.y), acc.y)),
                       epf_vals |-> Append(acc.epf_vals, Deflate(EpfVal(acc.y), acc.y)),
                       asset_vals |-> Append(acc.asset_vals, Deflate(AssetVal(acc.y), acc.y)),
                       total_invested_mf |->
                           IF acc.y * MONTHS > 0
                           THEN acc.total_invested_mf + p.monthly_sip * MONTHS
                           ELSE acc.total_invested_mf]
            /\ UNCHANGED <<pc, raised>>
    /\ UNCHANGED <<ui, caller, p, ret, dep, result, alt_result, diff>>

----------------------------------------------------------------------------
\* calculate_retirement_plan: at retirement (lines 233-265)

\* The state before the `while`: lines 253-265.
DepStart(r, retirement_age) ==
    [temp_corpus |-> r.corpus_after_one_time,
     temp_mf_value |-> r.mf_value_at_ret,
     temp_mf_cost_basis |-> r.mf_cost_basis,
     temp_exp |-> r.exp_at_ret_monthly,
     age |-> retirement_age,
     m |-> 0,
     annual_withdrawal_needed |-> 0,
     annual_tax |-> 0,
     monthly_tax |-> 0,
     total_withdrawal |-> 0,
     cumulative_tax |-> 0,
     dep_ages |-> <<>>, dep_values |-> <<>>, dep_tax_paid |-> <<>>]

AtRetirementValues ==
    LET mf_value_at_ret == Last(acc.lump_vals) + Last(acc.sip_vals)
        epf_value_at_ret == Last(acc.epf_vals)
        asset_value_at_ret == Last(acc.asset_vals)
        total_at_ret == mf_value_at_ret + epf_value_at_ret + asset_value_at_ret
    IN  [mf_value_at_ret |-> mf_value_at_ret,
         epf_value_at_ret |-> epf_value_at_ret,
         asset_value_at_ret |-> asset_value_at_ret,
         total_at_ret |-> total_at_ret,
         mf_cost_basis |-> acc.total_invested_mf,
         corpus_after_one_time |-> total_at_ret - p.one_time_exp,
         exp_at_ret_monthly |->
             IF p.show_real_terms THEN p.current_monthly_exp
             ELSE Mul(p.current_monthly_exp, Pow(SCALE + p.inflation_rate, years_to_ret)),
         monthly_rate_post |-> p.post_ret_return \div MONTHS,
         monthly_inflation |->
             IF p.show_real_terms THEN 0 ELSE MonthlyEquivalent(p.inflation_rate)]

\* The accumulation loop is over; lump_vals[-1] of an empty list raises.
AtRetirement ==
    /\ pc = "acc"
    /\ acc.y = Len(acc_ages)
    /\ IF Len(acc.lump_vals) = 0
       THEN /\ raised' = "IndexError"
            /\ pc' = "raised"
            /\ UNCHANGED <<ret, dep>>
       ELSE /\ \E r \in {AtRetirementValues} :
                  /\ ret' = r
                  /\ dep' = DepStart(r, p.retirement_age)
            /\ pc' = "while"
            /\ UNCHANGED raised
    /\ UNCHANGED <<ui, caller, p, acc, result, alt_result, diff>>

----------------------------------------------------------------------------
\* calculate_retirement_plan: decumulation (lines 267-312)

\* while temp_corpus > 0 and age <= 100 : the ceiling off by one.
LoopContinues_inclusive(temp_corpus, age) == temp_corpus > 0 /\ age <= AGE_CEILING

\* while temp_corpus > 0 and age < 100
LoopContinues(temp_corpus, age) == temp_corpus > 0 /\ age < AGE_CEILING

\* if temp_mf_value > 0 : the tax switch ignored.
TaxApplies_always(include_ltcg, temp_mf_value) == temp_mf_value > 0

\* if include_ltcg and temp_mf_value > 0
TaxApplies(include_ltcg, temp_mf_value) == include_ltcg /\ temp_mf_value > 0

\* The loop test; on entry to a year annual_withdrawal_needed and annual_tax
\* are reset (lines 268-269) and the month loop starts at m = 0.
While ==
    /\ pc = "while"
    /\ IF LoopContinues(dep.temp_corpus, dep.age)
       THEN /\ dep' = [dep EXCEPT !.annual_withdrawal_needed = 0, !.annual_tax = 0, !.m = 0]
            /\ pc' = "month"
       ELSE /\ pc' = "return"
            /\ UNCHANGED dep
    /\ UNCHANGED <<ui, caller, p, acc, ret, raised, result, alt_result, diff>>

\* The cost basis after a withdrawal that left the balance at temp_mf_value:
\* lines 295-297.
NewCostBasis(temp_mf_cost_basis, total_withdrawal, temp_mf_value) ==
    IF temp_mf_value > 0
    THEN LET withdrawal_ratio == Ratio(total_withdrawal, temp_mf_value + total_withdrawal)
         IN  Mul(temp_mf_cost_basis, SCALE - withdrawal_ratio)
    ELSE temp_mf_cost_basis

\* The month loop ends after m = 11 only : the break at lines 302-303 left out.
MonthLoopEnds_nobreak(temp_corpus, m) == m = MONTHS - 1

\* The month loop ends after m = 11 (range(12)) or at the break of lines 302-303.
MonthLoopEnds(temp_corpus, m) == temp_corpus <= 0 \/ m = MONTHS - 1

\* One iteration of `for m in range(12)`: grow, tax, withdraw, cost basis,
\* inflate, and the break when the corpus is gone.
Month ==
    /\ pc = "month"
    /\ \E grown_corpus \in {Mul(dep.temp_corpus, SCALE + ret.monthly_rate_post)},
          grown_mf \in {Mul(dep.temp_mf_value, SCALE + ret.monthly_rate_post)} :
       \E taxed \in {TaxApplies(p.include_ltcg, grown_mf)} :
       \E monthly_tax \in
            {IF taxed
             THEN calculate_ltcg_tax(dep.temp_exp, dep.temp_mf_cost_basis, grown_mf,
                                     p.equity_allocation, p.debt_allocation,
                                     p.debt_tax_slab, p.ltcg_exempt_limit \div MONTHS)
             ELSE dep.monthly_tax} :
       \E total_withdrawal \in {IF taxed THEN dep.temp_exp + monthly_tax ELSE dep.temp_exp} :
       \E temp_corpus \in {grown_corpus - total_withdrawal},
          temp_mf_value \in {grown_mf - total_withdrawal} :
          /\ dep' = [dep EXCEPT
                       !.temp_corpus = temp_corpus,
                       !.temp_mf_value = temp_mf_value,
                       !.monthly_tax = monthly_tax,
                       !.total_withdrawal = total_withdrawal,
                       !.annual_tax = IF taxed THEN @ + monthly_tax ELSE @,
                       !.annual_withdrawal_needed = @ + total_withdrawal,
                       !.temp_mf_cost_basis =
                           NewCostBasis(@, total_withdrawal, temp_mf_value),
                       !.temp_exp = Mul(@, SCALE + ret.monthly_inflation),
                       !.m = IF MonthLoopEnds(temp_corpus, dep.m) THEN @ ELSE @ + 1]
          /\ pc' = IF MonthLoopEnds(temp_corpus, dep.m) THEN "year_end" ELSE "month"
    /\ UNCHANGED <<ui, caller, p, acc, ret, raised, result, alt_result, diff>>

\* dep_values.append(temp_corpus / 1e7) : the clamp left out.
ReportedCorpus_unclamped(temp_corpus) == temp_corpus

\* dep_values.append(max(0, temp_corpus / 1e7))
ReportedCorpus(temp_corpus) == Max(0, temp_corpus)

\* After the month loop: lines 305-312.
YearEnd ==
    /\ pc = "year_end"
    /\ dep' = [dep EXCEPT
                 !.age = @ + 1,
                 !.dep_ages = Append(@, dep.age + 1),
                 !.dep_values = Append(@, ReportedCorpus(dep.temp_corpus)),
                 !.cumulative_tax = @ + dep.annual_tax,
                 !.dep_tax_paid = Append(@, dep.cumulative_tax + dep.annual_tax)]
    /\ pc' = IF dep.temp_corpus <= 0 THEN "return" ELSE "while"
    /\ UNCHANGED <<ui, caller, p, acc, ret, raised, result, alt_result, diff>>

----------------------------------------------------------------------------
\* calculate_retirement_plan: the return value (lines 314-331)

\* 'survival_age': 100 if temp_corpus <= 0 else age : the branches swapped.
SurvivalAge_swapped(age, temp_corpus) == IF temp_corpus <= 0 THEN AGE_CEILING ELSE age

\* 'survival_age': age if temp_corpus <= 0 else 100
SurvivalAge(age, temp_corpus) == IF temp_corpus <= 0 THEN age ELSE AGE_CEILING

ReturnValue ==
    [acc_ages |-> acc_ages,
     lump_vals |-> acc.lump_vals,
     sip_vals |-> acc.sip_vals,
     epf_vals |-> acc.epf_vals,
     asset_vals |-> acc.asset_vals,
     dep_ages |-> dep.dep_ages,
     dep_values |-> dep.dep_values,
     dep_tax_paid |-> dep.dep_tax_paid,
     total_at_ret |-> ret.total_at_ret,
     corpus_after_one_time |-> ret.corpus_after_one_time,
     exp_at_ret_monthly |-> ret.exp_at_ret_monthly,
     survival_age |-> SurvivalAge(dep.age, dep.temp_corpus),
     total_invested |->
         acc.total_invested_mf + p.existing_epf
         + (IF p.monthly_epf > 0 THEN p.monthly_epf * months_to_ret ELSE 0),
     cumulative_ltcg_tax |-> dep.cumulative_tax,
     mf_cost_basis |-> ret.mf_cost_basis,
     mf_value_at_ret |-> ret.mf_value_at_ret]

\* return {...}: to the caller of the direct call, to `result` of the primary
\* run (line 334) or to `alt_result` of the comparison run (line 486).
Return ==
    /\ pc = "return"
    /\ IF caller = "alt"
       THEN /\ alt_result' = ReturnValue
            /\ pc' = "diff"
            /\ UNCHANGED result
       ELSE /\ result' = ReturnValue
            /\ pc' = IF caller = "primary" THEN "compare" ELSE "returned"
            /\ UNCHANGED alt_result
    /\ UNCHANGED <<ui, caller, p, acc, ret, dep, raised, diff>>

----------------------------------------------------------------------------
\* The script: validation, the primary run, the comparison run

\* The arguments the script passes at lines 334-341 and 486-493.
Args(u, retirement_age) ==
    [current_age |-> u.current_age,
     retirement_age |-> retirement_age,
     current_portfolio |-> u.current_portfolio,
     monthly_sip |-> u.monthly_sip,
     existing_epf |-> u.existing_epf,
     monthly_epf |-> u.monthly_epf,
     epf_return |-> u.epf_return,
     other_assets |-> u.other_assets,
     asset_appreciation |-> u.asset_appreciation,
     pre_ret_return |-> u.pre_ret_return,
     post_ret_return |-> u.post_ret_return,
     inflation_rate |-> u.inflation_rate,
     current_monthly_exp |-> u.current_monthly_exp,
     one_time_exp |-> u.one_time_exp,
     show_real_terms |-> u.show_real_terms,
     include_ltcg |-> u.include_ltcg,
     equity_allocation |-> u.equity_allocation,
     debt_allocation |-> u.debt_allocation,
     debt_tax_slab |-> u.debt_tax_slab,
     ltcg_exempt_limit |-> u.ltcg_exempt_limit]

\* if retirement_age <= current_age: st.error(...); st.stop()
InputRefused(current_age, retirement_age) == retirement_age <= current_age

\* Lines 35-37, then the primary call of line 334.
Validate ==
    /\ pc = "validate"
    /\ IF InputRefused(ui.current_age, ui.retirement_age)
       THEN /\ pc' = "stopped"
            /\ UNCHANGED <<caller, p, acc>>
       ELSE /\ pc' = "acc"
            /\ caller' = "primary"
            /\ p' = Args(ui, ui.retirement_age)
            /\ acc' = AccStart(Args(ui, ui.retirement_age))
    /\ UNCHANGED <<ui, ret, dep, raised, result, alt_result, diff>>

\* if compare_mode and alt_retirement_age and alt_retirement_age != retirement_age
ComparisonRuns(u) ==
    u.compare_mode /\ u.alt_retirement_age # 0 /\ u.alt_retirement_age # u.retirement_age

\* Line 483, then the comparison call of line 486.
Compare ==
    /\ pc = "compare"
    /\ IF ComparisonRuns(ui)
       THEN /\ pc' = "acc"
            /\ caller' = "alt"
            /\ p' = Args(ui, ui.alt_retirement_age)
            /\ acc' = AccStart(Args(ui, ui.alt_retirement_age))
            /\ ret' = NoRecord
            /\ dep' = NoRecord
       ELSE /\ pc' = "done"
            /\ UNCHANGED <<caller, p, acc, ret, dep>>
    /\ UNCHANGED <<ui, raised, result, alt_result, diff>>

\* result['total_at_ret'] - alt_result['total_at_ret'] : the operands swapped.
DiffCorpus_swapped(alt_total_at_ret, total_at_ret) == total_at_ret - alt_total_at_ret

\* diff_corpus = alt_result['total_at_ret'] - result['total_at_ret']
DiffCorpus(alt_total_at_ret, total_at_ret) == alt_total_at_ret - total_at_ret

\* Lines 528-530.
Diff ==
    /\ pc = "diff"
    /\ diff' = [diff_corpus |-> DiffCorpus(alt_result.total_at_ret, result.total_at_ret),
                diff_years |-> ui.alt_retirement_age - ui.retirement_age,
                diff_tax |-> alt_result.cumulative_ltcg_tax - result.cumulative_ltcg_tax]
    /\ pc' = "done"
    /\ UNCHANGED <<ui, caller, p, acc, ret, dep, raised, result, alt_result>>

----------------------------------------------------------------------------
\* Inputs

\* The tax widgets (lines 86-116): with the box unticked the four values are
\* fixed; with it ticked the allocation and the slab come from the sliders.
TaxOff == [include_ltcg |-> FALSE, equity_allocation |-> SCALE, debt_allocation |-> 0,
           debt_tax_slab |-> 0, ltcg_exempt_limit |-> 0]

TaxOn(equity_pct, slab_pct) ==
    [include_ltcg |-> TRUE, equity_allocation |-> Pct(equity_pct),
     debt_allocation |-> SCALE - Pct(equity_pct), debt_tax_slab |-> Pct(slab_pct),
     ltcg_exempt_limit |-> LTCG_EXEMPT_LIMIT]

\* The EPF widgets (lines 48-60).
EpfOff == [include_epf |-> FALSE, existing_epf |-> 0, monthly_epf |-> 0, epf_return |-> 0]

EpfOn(existing, monthly, return) ==
    [include_epf |-> TRUE, existing_epf |-> existing, monthly_epf |-> monthly,
     epf_return |-> return]

MkUI(ages, alt, rates, money, assets, epf, tax, real) ==
    [current_age |-> ages[1], retirement_age |-> ages[2],
     compare_mode |-> alt # 0, alt_retirement_age |-> alt,
     pre_ret_return |-> rates[1], post_ret_return |-> rates[2], inflation_rate |-> rates[3],
     current_portfolio |-> money[1], monthly_sip |-> money[2],
     current_monthly_exp |-> money[3], one_time_exp |-> money[4],
     other_assets |-> assets[1], asset_appreciation |-> assets[2],
     include_epf |-> epf.include_epf, existing_epf |-> epf.existing_epf,
     monthly_epf |-> epf.monthly_epf, epf_return |-> epf.epf_return,
     include_ltcg |-> tax.include_ltcg, equity_allocation |-> tax.equity_allocation,
     debt_allocation |-> tax.debt_allocation, debt_tax_slab |-> tax.debt_tax_slab,
     ltcg_exempt_limit |-> tax.ltcg_exempt_limit,
     show_real_terms |-> real]

\* The ranges of the sliders (lines 27-30, 39, 56, 67-71, 76-77, 87-91,
\* 104-109, 130).
InWidgetRanges(u) ==
    /\ u.current_age \in CURRENT_AGE_MIN..CURRENT_AGE_MAX
    /\ u.retirement_age \in RETIREMENT_AGE_MIN..RETIREMENT_AGE_MAX
    /\ u.compare_mode => u.alt_retirement_age \in RETIREMENT_AGE_MIN..RETIREMENT_AGE_MAX
    /\ u.inflation_rate \in Pct(4)..Pct(9)
    /\ u.pre_ret_return \in Pct(8)..Pct(16)
    /\ u.post_ret_return \in Pct(4)..Pct(9)
    /\ u.asset_appreciation \in 0..Pct(10)
    /\ u.include_epf => u.epf_return \in Pct(6)..Pct(10)
    /\ u.include_ltcg =>
          /\ u.equity_allocation \in 0..SCALE
          /\ u.debt_tax_slab \in {Pct(0), Pct(5), Pct(10), Pct(15), Pct(20), Pct(30)}

\* The widget values the model runs the script on.  An unticked comparison
\* box leaves alt_retirement_age = None, held as 0 (as falsy).
UIChoices ==
    {MkUI(ages, alt, rates, money, assets, epf, tax, real) :
        ages \in ((CURRENT_AGE_MAX - 1)..CURRENT_AGE_MAX) \X {CURRENT_AGE_MAX, CURRENT_AGE_MAX + 1},
        alt \in {0, RETIREMENT_AGE_MIN, CURRENT_AGE_MAX, CURRENT_AGE_MAX + 2},
        rates \in {<<Pct(8), Pct(7), Pct(9)>>, <<Pct(12), Pct(7), Pct(6)>>},
        money \in {<<3300000, 100000, 100000, 6500000>>, <<3300000, 1000, 20000, 0>>},
        assets \in {<<0, Pct(5)>>, <<5000000, 0>>},
        epf \in {EpfOff, EpfOn(1050000, 6000, Pct(8))},
        tax \in {TaxOff, TaxOn(70, 10)},
        real \in BOOLEAN}

\* Each of them inside its widget's range.
UIInputs == {u \in UIChoices : InWidgetRanges(u)}

Init ==
    /\ pc = "validate"
    /\ ui \in UIInputs
    /\ caller = "none"
    /\ p = NoRecord
    /\ acc = NoRecord
    /\ ret = NoRecord
    /\ dep = NoRecord
    /\ raised = "none"
    /\ result = NoRecord
    /\ alt_result = NoRecord
    /\ diff = NoRecord

EngineNext == AccYear \/ AtRetirement \/ While \/ Month \/ YearEnd \/ Return

Next == Validate \/ EngineNext \/ Compare \/ Diff

\* The script, run once on a set of widget values.
Spec == Init /\ [][Next]_vars

\* Arguments of a direct call of calculate_retirement_plan: valid ages late in
\* life (so that both the depletion and the age ceiling are reached within a
\* few simulated years), rates that include 0, and tax settings beyond the
\* sidebar's.
TaxArgs(on, equity, slab, limit) ==
    [include_ltcg |-> on, equity_allocation |-> equity, debt_allocation |-> SCALE - equity,
     debt_tax_slab |-> slab, ltcg_exempt_limit |-> limit]

DirectArgs ==
    {Args(MkUI(<<r - n, r>>, 0, rates, money, assets, epf, tax, real), r) :
        r \in (AGE_CEILING - LateStart)..(AGE_CEILING - 1),
        n \in 1..MaxYearsToRet,
        rates \in {<<0, Pct(7), Pct(6)>>, <<Pct(8), Pct(7), Pct(9)>>, <<Pct(12), 0, 0>>,
                   <<Pct(16), Pct(9), Pct(4)>>},
        money \in {<<500000, 10000, 30000, 0>>, <<500000, 10000, 100000, 700000>>,
                   <<0, 0, 30000, 0>>, <<300000, 0, 100000, 700000>>,
                   <<2000000, 50000, 250000, 100000>>},
        assets \in {<<0, Pct(5)>>, <<400000, 0>>},
        epf \in {EpfOff, EpfOn(100000, 2000, Pct(8)), EpfOn(100000, 2000, 0)},
        tax \in {TaxOff, TaxArgs(TRUE, Pct(70), Pct(10), LTCG_EXEMPT_LIMIT),
                 TaxArgs(TRUE, 0, SCALE, 0), TaxArgs(TRUE, SCALE, 0, 12000),
                 TaxArgs(TRUE, Pct(50), Pct(30), 0)},
        real \in BOOLEAN}

\* The spec's concrete scenario (the sidebar's defaults) and its variants:
\* other assets that appreciate, and an EPF balance with no new contribution.
DefaultArgs ==
    {Args(MkUI(<<41, 55>>, 0, <<Pct(12), Pct(7), Pct(6)>>, <<3300000, 100000, 100000, 6500000>>,
               assets, epf, tax, real), 55) :
        assets \in {<<0, Pct(5)>>, <<5000000, Pct(5)>>},
        epf \in {EpfOff, EpfOn(1050000, 6000, Pct(8)), EpfOn(1050000, 0, Pct(8))},
        tax \in {TaxOff, TaxOn(70, 10)},
        real \in BOOLEAN}

EngineInit ==
    /\ pc = "acc"
    /\ ui = NoRecord
    /\ caller = "direct"
    /\ p \in DirectArgs \cup DefaultArgs
    /\ acc = AccStart(p)
    /\ ret = NoRecord
    /\ dep = NoRecord
    /\ raised = "none"
    /\ result = NoRecord
    /\ alt_result = NoRecord
    /\ diff = NoRecord

\* calculate_retirement_plan, called once.
EngineSpec == EngineInit /\ [][EngineNext]_vars

----------------------------------------------------------------------------
\* Properties

InLoop == pc \in {"while", "month", "year_end"}

\* Where the run stands within a simulated year: the loop test, the m-th
\* month, the end of the year.
LoopPosition ==
    CASE pc = "month" -> 1 + dep.m
      [] pc = "year_end" -> MONTHS + 1
      [] OTHER -> 0

\* The steps the loop can still take: whole years below the ceiling, less the
\* part of the current year that is done.
StepsLeft == (AGE_CEILING - dep.age) * (MONTHS + 2) - LoopPosition

\* C1: for every retirement_age < 100 the decumulation loop ends within
\* 100 - retirement_age simulated years: the depletion trajectory never has
\* more than 100 - retirement_age entries, no entry has an age above 100, the
\* body of the loop is only entered below the ceiling, and every step of the
\* loop uses up one of the finitely many steps left.
C1_DepletionBounded ==
    /\ []((dep # NoRecord /\ p.retirement_age < AGE_CEILING) =>
            /\ Len(dep.dep_ages) <= AGE_CEILING - p.retirement_age
            /\ \A i \in 1..Len(dep.dep_ages) : dep.dep_ages[i] <= AGE_CEILING
            /\ dep.age <= AGE_CEILING
            /\ pc \in {"month", "year_end"} => dep.age < AGE_CEILING
            /\ InLoop => StepsLeft >= 0)
    /\ [][(InLoop /\ InLoop' /\ p.retirement_age < AGE_CEILING) => StepsLeft' < StepsLeft]_vars

\* C1 witness: a run with a positive starting corpus and a positive expense
\* that is still solvent when the ceiling stops it, after exactly
\* 100 - retirement_age years.
C1_Witness ==
    /\ pc = "return"
    /\ ret.corpus_after_one_time > 0
    /\ p.current_monthly_exp > 0
    /\ dep.temp_corpus > 0
    /\ Len(dep.dep_ages) = AGE_CEILING - p.retirement_age
    /\ Last(dep.dep_ages) = AGE_CEILING

\* C2: the engine never computes a trajectory for retirement_age <= current_age,
\* in the primary run or in the comparison run.
C2_EngineAgesValid ==
    (caller \in {"primary", "alt"} /\ acc # NoRecord /\ Len(acc.lump_vals) > 0) =>
        p.retirement_age > p.current_age

\* C3: with a growth rate of exactly 0 the annuity does not divide by zero:
\* nothing is raised and the SIP value is the linear sum monthly_sip * m.
C3_ZeroRateLinear ==
    (acc # NoRecord /\ (p.pre_ret_return = 0 \/ (p.epf_return = 0 /\ p.monthly_epf > 0))) =>
        /\ raised = "none"
        /\ (p.pre_ret_return = 0 /\ ~p.show_real_terms) =>
               \A i \in 1..Len(acc.sip_vals) :
                   acc.sip_vals[i] = p.monthly_sip * MONTHS * (i - 1)

InDecumulation == pc \in {"while", "month", "year_end", "return"}

NonNegativeRates ==
    /\ p.pre_ret_return >= 0 /\ p.post_ret_return >= 0 /\ p.inflation_rate >= 0
    /\ p.epf_return >= 0 /\ p.asset_appreciation >= 0

\* C4: at retirement and after every simulated month the cost basis lies
\* between 0 and the market-linked balance it is tracked alongside.
C4_CostBasisWithinValue ==
    (InDecumulation /\ NonNegativeRates) =>
        /\ 0 <= dep.temp_mf_cost_basis
        /\ dep.temp_mf_cost_basis <= dep.temp_mf_value

TaxConfigValid ==
    /\ p.equity_allocation + p.debt_allocation = SCALE
    /\ p.debt_tax_slab \in 0..SCALE
    /\ p.ltcg_exempt_limit >= 0

\* C5: with tax modelling on and a valid tax configuration, the tax a month
\* adds to its withdrawal (the value calculate_ltcg_tax returned) is >= 0 and
\* not greater than the monthly expense it was computed on.
C5_TaxWithinWithdrawal ==
    [][(pc = "month" /\ p.include_ltcg /\ TaxConfigValid) =>
          /\ 0 <= dep'.total_withdrawal - dep.temp_exp
          /\ dep'.total_withdrawal - dep.temp_exp <= dep.temp_exp
          /\ dep'.annual_tax - dep.annual_tax = dep'.total_withdrawal - dep.temp_exp]_vars

\* C5 witness: a month whose withdrawal carried a positive tax, on equity gains
\* above the exempt limit.
C5_Witness ==
    /\ pc \in {"month", "year_end"}
    /\ p.include_ltcg
    /\ p.equity_allocation = SCALE
    /\ dep.total_withdrawal > 0
    /\ dep.annual_tax > 0

\* C6: with tax modelling off every month withdraws exactly the current monthly
\* expense, every cumulative-tax entry is 0 and the returned cumulative tax is 0.
C6_NoTaxWhenDisabled ==
    /\ [](dep # NoRecord /\ ~p.include_ltcg =>
            /\ dep.annual_tax = 0
            /\ dep.cumulative_tax = 0
            /\ \A i \in 1..Len(dep.dep_tax_paid) : dep.dep_tax_paid[i] = 0
            /\ pc = "returned" => result.cumulative_ltcg_tax = 0)
    /\ [][(pc = "month" /\ ~p.include_ltcg) => dep'.total_withdrawal = dep.temp_exp]_vars

\* C6 witness: a returned run without tax, with gains in the portfolio, that
\* simulated at least one year.
C6_Witness ==
    /\ pc = "returned"
    /\ ~p.include_ltcg
    /\ ret.mf_value_at_ret > ret.mf_cost_basis
    /\ Len(result.dep_tax_paid) >= 1
    /\ dep.total_withdrawal > 0

\* C7: the depletion trajectory starts at retirement_age + 1, its ages go up by
\* one, every reported corpus is >= 0, only the last one can be 0, and nothing
\* is simulated after a year that ended with the corpus at 0.
C7_DepletionTrajectory ==
    dep # NoRecord =>
        /\ Len(dep.dep_values) = Len(dep.dep_ages)
        /\ Len(dep.dep_tax_paid) = Len(dep.dep_ages)
        /\ \A i \in 1..Len(dep.dep_ages) :
              /\ dep.dep_ages[i] = p.retirement_age + i
              /\ dep.dep_values[i] >= 0
              /\ i < Len(dep.dep_ages) => dep.dep_values[i] > 0
        /\ (Len(dep.dep_values) > 0 /\ Last(dep.dep_values) = 0) =>
              pc \notin {"while", "month", "year_end"}

\* C7 witness: a returned trajectory of several years that ends at 0.
C7_Witness ==
    /\ pc = "returned"
    /\ Len(result.dep_values) >= 2
    /\ Last(result.dep_values) = 0
    /\ dep.temp_corpus < 0

\* C8: survival_age is retirement_age, with an empty trajectory, when the corpus
\* is <= 0 at entry; the age of the last entry when the corpus is depleted
\* during the simulation; 100 when it is positive at the ceiling; and always
\* within retirement_age..100.
C8_SurvivalAge ==
    pc = "returned" =>
        /\ ret.corpus_after_one_time <= 0 =>
              /\ result.survival_age = p.retirement_age
              /\ result.dep_ages = <<>>
        /\ (ret.corpus_after_one_time > 0 /\ dep.temp_corpus <= 0) =>
              /\ result.dep_ages # <<>>
              /\ result.survival_age = Last(result.dep_ages)
              /\ \A i \in 1..(Len(result.dep_values) - 1) : result.dep_values[i] > 0
        /\ dep.temp_corpus > 0 =>
              /\ result.survival_age = AGE_CEILING
              /\ dep.age = AGE_CEILING
        /\ p.retirement_age <= result.survival_age
        /\ result.survival_age <= AGE_CEILING

\* C8 witness: a corpus depleted during the simulation, before the ceiling.
C8_Witness ==
    /\ pc = "returned"
    /\ ret.corpus_after_one_time > 0
    /\ dep.temp_corpus <= 0
    /\ Len(result.dep_ages) >= 1
    /\ result.survival_age < AGE_CEILING

ValidParameters ==
    /\ p.retirement_age > p.current_age
    /\ NonNegativeRates
    /\ p.current_portfolio >= 0 /\ p.monthly_sip >= 0 /\ p.existing_epf >= 0
    /\ p.monthly_epf >= 0 /\ p.other_assets >= 0
    /\ p.current_monthly_exp >= 0 /\ p.one_time_exp >= 0

\* C9: for valid parameters the returned accumulation trajectory has
\* retirement_age - current_age + 1 entries in each list, one per age from
\* current_age to retirement_age, and every component value is >= 0.
C9_AccumulationTrajectory ==
    (pc = "returned" /\ ValidParameters) =>
        /\ Len(result.acc_ages) = p.retirement_age - p.current_age + 1
        /\ \A i \in 1..Len(result.acc_ages) : result.acc_ages[i] = p.current_age + i - 1
        /\ \A vals \in {result.lump_vals, result.sip_vals, result.epf_vals, result.asset_vals} :
              /\ Len(vals) = p.retirement_age - p.current_age + 1
              /\ \A i \in 1..Len(vals) : vals[i] >= 0

\* C9 witness: a returned trajectory of several ages with all four components
\* present.
C9_Witness ==
    /\ pc = "returned"
    /\ ValidParameters
    /\ Len(result.lump_vals) >= 3
    /\ Last(result.lump_vals) > 0 /\ Last(result.sip_vals) > 0
    /\ Last(result.epf_vals) > 0 /\ Last(result.asset_vals) > 0

Compared ==
    /\ pc = "done" /\ diff # NoRecord
    /\ ui.retirement_age > ui.current_age /\ ui.alt_retirement_age > ui.current_age
    /\ ui.pre_ret_return > 0 /\ ui.monthly_sip > 0

LaterRetirementLargerCorpus ==
    /\ ui.alt_retirement_age > ui.retirement_age =>
          /\ alt_result.total_at_ret > result.total_at_ret
          /\ diff.diff_corpus > 0
    /\ ui.alt_retirement_age < ui.retirement_age =>
          /\ alt_result.total_at_ret < result.total_at_ret
          /\ diff.diff_corpus < 0

\* C10 as stated: of two runs that differ only in the retirement age, the later
\* one has the strictly greater total_at_ret, for every setting of the
\* real-terms flag.
C10_AsStated == Compared => LaterRetirementLargerCorpus

\* C10 as amended: the same, for runs in nominal terms (show_real_terms off).
C10_NominalLaterRetirementLargerCorpus ==
    (Compared /\ ~ui.show_real_terms) => LaterRetirementLargerCorpus

\* C10 witness: a nominal comparison with the alternative age the later one.
C10_Witness ==
    /\ Compared
    /\ ~ui.show_real_terms
    /\ ui.alt_retirement_age > ui.retirement_age
    /\ diff.diff_corpus > 0

PositiveGrowthRates ==
    /\ p.pre_ret_return > 0
    /\ p.monthly_epf > 0 => p.epf_return > 0
    /\ p.other_assets > 0 => p.asset_appreciation > 0

NonDecreasing(vals) == \A i \in 1..(Len(vals) - 1) : vals[i + 1] >= vals[i]

ComponentsNonDecreasing ==
    \A vals \in {acc.lump_vals, acc.sip_vals, acc.epf_vals, acc.asset_vals} : NonDecreasing(vals)

\* C11 as stated: under positive growth rates each of the four stored
\* components is non-decreasing in age, for every setting of the real-terms flag.
C11_AsStated ==
    (acc # NoRecord /\ ValidParameters /\ PositiveGrowthRates) => ComponentsNonDecreasing

\* C11 as amended: the same, for runs in nominal terms (show_real_terms off).
C11_NominalComponentsNonDecreasing ==
    (acc # NoRecord /\ ValidParameters /\ PositiveGrowthRates /\ ~p.show_real_terms) =>
        ComponentsNonDecreasing

\* C11 witness: a returned nominal trajectory of several ages in which all four
\* components are present and grew in the last year.
C11_Witness ==
    /\ pc = "returned"
    /\ ValidParameters /\ PositiveGrowthRates /\ ~p.show_real_terms
    /\ Len(result.lump_vals) >= 3
    /\ \A vals \in {result.lump_vals, result.sip_vals, result.epf_vals, result.asset_vals} :
          /\ vals[Len(vals) - 1] > 0
          /\ vals[Len(vals)] > vals[Len(vals) - 1]

\* The corpus and the market-linked balance of this month after growth.
GrownCorpus == Mul(dep.temp_corpus, SCALE + ret.monthly_rate_post)
GrownMf == Mul(dep.temp_mf_value, SCALE + ret.monthly_rate_post)

\* A month in the stated order: the tax is computed on the grown balance with
\* the expense and the cost basis of before the month, the withdrawal is taken
\* from the grown corpus, the cost basis is updated with the balance the
\* withdrawal left, and the expense is inflated last.
MonthInOrder ==
    /\ dep'.total_withdrawal - dep.temp_exp =
          IF TaxApplies(p.include_ltcg, GrownMf)
          THEN calculate_ltcg_tax(dep.temp_exp, dep.temp_mf_cost_basis, GrownMf,
                                  p.equity_allocation, p.debt_allocation,
                                  p.debt_tax_slab, p.ltcg_exempt_limit \div MONTHS)
          ELSE 0
    /\ dep'.annual_tax - dep.annual_tax =
          IF TaxApplies(p.include_ltcg, GrownMf) THEN dep'.total_withdrawal - dep.temp_exp ELSE 0
    /\ dep'.temp_corpus = GrownCorpus - dep'.total_withdrawal
    /\ dep'.temp_mf_value = GrownMf - dep'.total_withdrawal
    /\ dep'.temp_mf_cost_basis =
          NewCostBasis(dep.temp_mf_cost_basis, dep'.total_withdrawal, dep'.temp_mf_value)
    /\ dep'.temp_exp = Mul(dep.temp_exp, SCALE + ret.monthly_inflation)

\* The end of a year: the age goes up by 1, one entry is appended, and nothing
\* else of the simulation moves.
YearClosed ==
    /\ dep'.age = dep.age + 1
    /\ dep'.dep_ages = Append(dep.dep_ages, dep.age + 1)
    /\ Len(dep'.dep_values) = Len(dep.dep_values) + 1
    /\ Len(dep'.dep_tax_paid) = Len(dep.dep_tax_paid) + 1
    /\ dep'.temp_corpus = dep.temp_corpus /\ dep'.temp_mf_value = dep.temp_mf_value
    /\ dep'.temp_exp = dep.temp_exp /\ dep'.annual_tax = dep.annual_tax
    /\ dep'.annual_withdrawal_needed = dep.annual_withdrawal_needed

\* C12: a month grows, taxes, withdraws, updates the cost basis and inflates
\* the expense, in this order; once the corpus is <= 0 after a withdrawal no
\* later month is processed, the year is closed with the age advanced by 1 and
\* exactly one entry appended, and the simulation stops.
C12_MonthOrderAndBreak ==
    /\ [](pc = "month" => (dep.temp_corpus > 0 /\ dep.m \in 0..(MONTHS - 1)))
    /\ [][(pc = "month" => MonthInOrder)
           /\ ((pc = "month" /\ dep'.temp_corpus <= 0) => pc' = "year_end")
           /\ (pc = "year_end" => YearClosed)
           /\ ((pc = "year_end" /\ dep.temp_corpus <= 0) => pc' = "return")
           /\ (pc \in {"return", "returned"} => dep' = dep)]_vars

\* C12 witness: a returned run, taxed, whose corpus ran out before the last
\* month of a year that was not the first.
C12_Witness ==
    /\ pc = "returned"
    /\ p.include_ltcg
    /\ dep.annual_tax > 0
    /\ dep.temp_corpus <= 0
    /\ dep.m < MONTHS - 1
    /\ Len(result.dep_ages) >= 2
    /\ Last(result.dep_ages) = dep.age

\* The retirement-fund value the description gives for year offset y: the
\* starting balance compounding on its own, plus the annuity-due value of the
\* monthly contribution (nothing for a contribution of 0 or for y = 0),
\* deflated as every component is in real terms.
DescribedEpfValue(y) ==
    Deflate(Mul(p.existing_epf, Pow(SCALE + p.epf_return, y))
            + (IF y * MONTHS > 0 /\ p.monthly_epf > 0
               THEN AnnuityDue(p.monthly_epf, monthly_epf_rate, y * MONTHS)
               ELSE 0), y)

\* C13: for every year offset y the stored retirement-fund component is
\* existing_epf * (1 + epf_return)^y plus the annuity-due value of the monthly
\* contribution, for every monthly contribution >= 0, so that a starting
\* balance counted in total_invested is also in the trajectory and in
\* total_at_ret.
C13_EpfComponent ==
    (acc # NoRecord /\ ValidParameters) =>
        /\ \A i \in 1..Len(acc.epf_vals) : acc.epf_vals[i] = DescribedEpfValue(i - 1)
        /\ (pc = "returned" /\ ~p.show_real_terms) =>
              /\ result.total_invested >= p.existing_epf
              /\ Last(result.epf_vals) >= p.existing_epf
              /\ result.total_at_ret >= result.mf_value_at_ret + p.existing_epf

====
